---- MODULE Spec2Model ----
(***************************************************************************)
(* A model of the Solana epoch tracker (src/app.py): the slot duration     *)
(* estimator, the transaction volume estimator, the epoch history          *)
(* generator, the progress computation of render_current_epoch and the     *)
(* CSV tracking file written by record_epoch_stats.                        *)
(*                                                                         *)
(* Python floats are modelled as exact rationals <<numerator, denominator>>*)
(* with a non-zero denominator; wall-clock readings are whole seconds.     *)
(***************************************************************************)
EXTENDS Integers, Sequences, FiniteSets, TLC

VARIABLES
    fileExists,   \* os.path.exists(TRACKING_FILE)
    file,         \* the lines of TRACKING_FILE below its header
    loaded,       \* the DataFrame the last load_epoch_stats returned (empty before any)
    last,         \* the last call made on the store: op, whether it changed the file and,
                  \* for record_epoch_stats, whether its epoch was on file before
    wpc,          \* concurrent writers: each writer's position in record_epoch_stats
    wargs,        \* concurrent writers: (epoch, tx_estimate, timestamp) of the call
    wdf,          \* concurrent writers: the DataFrame each read from the file
    raced,        \* concurrent writers: how far a race on one epoch has got
    est,          \* the frame of estimate_slot_duration
    txe,          \* the arguments and the result of estimate_total_transactions
    hist,         \* the arguments and the result of generate_full_epoch_history
    prog          \* the arguments and the result of the progress computation

vars == <<fileExists, file, loaded, last, wpc, wargs, wdf, raced, est, txe, hist, prog>>

storeVars == <<fileExists, file, loaded, last>>
raceVars == <<wpc, wargs, wdf, raced>>

None == "None"
NoBlock == -1      \* get_block returned None, or a block without "transactions"
NoSlot == -1       \* get_current_slot returned None
ZeroDivisionError == <<1, 0>>

(***************************************************************************)
(* Bounds of the model.                                                    *)
(***************************************************************************)
MaxEpoch == 1          \* a page refresh observes epochs 0..MaxEpoch
MaxTx == 2             \* a block carries 0..MaxTx transactions
MaxNow == 0            \* datetime.utcnow() reads 0..MaxNow
ModelSlotsInEpoch == 12 \* slotsInEpoch reported by getEpochInfo
MaxSamples == 5        \* estimate_slot_duration is called with 2..MaxSamples samples
MaxSlotSteps == 2      \* getSlot answers one of MaxSlotSteps + 1 slot numbers
MaxBlockTx == 2        \* estimate_total_transactions sees blocks of 0..MaxBlockTx transactions
MaxStart == 1          \* ... from start_slot 0..MaxStart
MaxSpan == 4           \* ... over end_slot - start_slot in 1..MaxSpan
MaxStride == 2         \* ... with sample_rate 1..MaxStride
MaxHistEpoch == 3      \* generate_full_epoch_history is called for epochs 0..MaxHistEpoch
MaxOffset == 1         \* ... whose first slot lies 0..MaxOffset past a multiple of SLOTS_PER_EPOCH
MaxSlotIndex == 2      \* the progress is computed at slotIndex 0..MaxSlotIndex and at the last slot

(***************************************************************************)
(* Program constants.                                                      *)
(***************************************************************************)
SLOTS_PER_EPOCH == 432000
DEFAULT_SAMPLE_RATE == 1000
NEW_EPOCH_SLOTS == 10
DEFAULT_SAMPLES == 5
DEFAULT_INTERVAL_SEC == 10
FIXED_SLOT_DURATION == <<2, 5>>     \* 0.4

(***************************************************************************)
(* Rationals.                                                              *)
(***************************************************************************)
Abs(n) == IF n < 0 THEN -n ELSE n

RECURSIVE GCD(_, _)
GCD(m, n) == IF n = 0 THEN m ELSE GCD(n, m % n)

\* a in lowest terms with a positive denominator.
Norm(a) ==
    LET g == GCD(Abs(a[1]), Abs(a[2]))
        sign == IF a[2] < 0 THEN -1 ELSE 1
    IN <<sign * (a[1] \div g), sign * (a[2] \div g)>>

RatEq(a, b) == Norm(a) = Norm(b)
RatPos(a) == Norm(a)[1] > 0
RatNonNeg(a) == Norm(a)[1] >= 0
\* a <= b
RatLeq(a, b) == Norm(a)[1] * Norm(b)[2] <= Norm(b)[1] * Norm(a)[2]
RatLess(a, b) == Norm(a)[1] * Norm(b)[2] < Norm(b)[1] * Norm(a)[2]
RatMul(a, b) == <<a[1] * b[1], a[2] * b[2]>>
RatOfInt(n) == <<n, 1>>

(***************************************************************************)
(* The tracking file.  A DataFrame is a sequence of rows (records); the    *)
(* file holds one line per row, its fields in column order.                *)
(***************************************************************************)
Row(epoch, tx_estimate, timestamp) ==
    [Epoch |-> epoch, EstimatedTotalTransactions |-> tx_estimate, Timestamp |-> timestamp]

to_csv(df) ==
    [i \in 1..Len(df) |-> <<df[i].Epoch, df[i].EstimatedTotalTransactions, df[i].Timestamp>>]

read_csv(lines) ==
    [i \in 1..Len(lines) |-> Row(lines[i][1], lines[i][2], lines[i][3])]

\* epoch in df["Epoch"].values
EpochInValues(df, epoch) == \E i \in 1..Len(df) : df[i].Epoch = epoch

\* df.append(row, ignore_index=True)
DfAppend(df, row) == Append(df, row)

\* record_epoch_stats without the membership test of line 74.
RecordAlways(exists, lines, epoch, tx_estimate, timestamp) ==
    IF exists
    THEN to_csv(DfAppend(read_csv(lines), Row(epoch, tx_estimate, timestamp)))
    ELSE to_csv(<<Row(epoch, tx_estimate, timestamp)>>)

\* record_epoch_stats writing its row alone, whatever the file holds.
RecordOverwrite(exists, lines, epoch, tx_estimate, timestamp) ==
    to_csv(<<Row(epoch, tx_estimate, timestamp)>>)

\* Lines 72-79: the file's lines after record_epoch_stats(epoch, tx_estimate) at time
\* timestamp.
RecordedFile(exists, lines, epoch, tx_estimate, timestamp) ==
    IF exists
    THEN LET df == read_csv(lines) IN
         IF ~EpochInValues(df, epoch)
         THEN to_csv(DfAppend(df, Row(epoch, tx_estimate, timestamp)))
         ELSE lines
    ELSE to_csv(<<Row(epoch, tx_estimate, timestamp)>>)

\* load_epoch_stats()
LoadedFrame(exists, lines) ==
    IF exists THEN read_csv(lines) ELSE <<>>

(***************************************************************************)
(* Blocks.  blocks maps a slot to the number of transactions of its block, *)
(* or to NoBlock when the lookup fails or the block carries no transaction    *)
(* list; a slot outside its domain has no block.                           *)
(***************************************************************************)
get_block(blocks, slot) ==
    IF slot \in DOMAIN blocks THEN blocks[slot] ELSE NoBlock

\* round(avg_tx_per_block * (end_slot - start_slot)) in place of int(...).
RoundedTotal(tx_count, slots_sampled, span) ==
    IF slots_sampled = 0 THEN 0
    ELSE (2 * tx_count * span + slots_sampled) \div (2 * slots_sampled)

\* Lines 65-67: int(avg_tx_per_block * (end_slot - start_slot)), where
\* avg_tx_per_block = tx_count / slots_sampled, or 0 when nothing was sampled.  Within
\* the bounds of the model the double product truncates to the exact quotient.
EstimatedTotal(tx_count, slots_sampled, span) ==
    IF slots_sampled = 0 THEN 0
    ELSE (tx_count * span) \div slots_sampled

RECURSIVE SampleLoop(_, _, _, _, _)
SampleLoop(slot, end_slot, sample_rate, blocks, acc) ==
    IF slot >= end_slot THEN acc
    ELSE LET block == get_block(blocks, slot)
             next == IF block # NoBlock
                     THEN [probed |-> Append(acc.probed, slot),
                           tx_count |-> acc.tx_count + block,
                           slots_sampled |-> acc.slots_sampled + 1]
                     ELSE [acc EXCEPT !.probed = Append(@, slot)]
         IN SampleLoop(slot + sample_rate, end_slot, sample_rate, blocks, next)

Sampled(start_slot, end_slot, sample_rate, blocks) ==
    SampleLoop(start_slot, end_slot, sample_rate, blocks,
               [probed |-> <<>>, tx_count |-> 0, slots_sampled |-> 0])

estimate_total_transactions(start_slot, end_slot, sample_rate, blocks) ==
    LET s == Sampled(start_slot, end_slot, sample_rate, blocks)
    IN EstimatedTotal(s.tx_count, s.slots_sampled, end_slot - start_slot)

(***************************************************************************)
(* The page: get_epoch_info, render_current_epoch, render_epoch_stats.     *)
(***************************************************************************)
BlockOutcomes == {NoBlock} \cup (0..MaxTx)
Timestamps == 0..MaxNow

SlotIndexes == {0, NEW_EPOCH_SLOTS - 1, NEW_EPOCH_SLOTS}

\* What getEpochInfo can answer: the chain is in epoch e, at slot e * slotsInEpoch + slotIndex.
EpochInfos ==
    { [epoch |-> e, slotIndex |-> x, slotsInEpoch |-> ModelSlotsInEpoch,
       absoluteSlot |-> e * ModelSlotsInEpoch + x] :
      e \in 0..MaxEpoch, x \in SlotIndexes }

StartSlot(data) == data.absoluteSlot - data.slotIndex
EndSlot(data) == StartSlot(data) + data.slotsInEpoch - 1

\* The slots render_current_epoch has sampled that can hold a block when the page is
\* refreshed: those of range(start_slot, end_slot, 1000) up to absoluteSlot (the
\* later ones have no block yet).
LedgerSlots(data) ==
    { slot \in StartSlot(data)..data.absoluteSlot :
        (slot - StartSlot(data)) % DEFAULT_SAMPLE_RATE = 0 }
Ledgers(data) == [LedgerSlots(data) -> BlockOutcomes]

\* The epoch number render_current_epoch records under.
RecordedEpoch(data) == data.epoch - 1

\* The file after render_current_epoch(data, slot_duration).
RenderedFile(exists, lines, data, blocks, timestamp) ==
    IF data.slotIndex < NEW_EPOCH_SLOTS
    THEN RecordedFile(exists, lines, RecordedEpoch(data),
                      estimate_total_transactions(StartSlot(data), EndSlot(data),
                                                  DEFAULT_SAMPLE_RATE, blocks),
                      timestamp)
    ELSE lines

RenderedExists(exists, data) == exists \/ data.slotIndex < NEW_EPOCH_SLOTS

\* Lines 145-151 when get_epoch_info answers data: render_current_epoch, then
\* render_epoch_stats loads the file.  The slot duration, the progress figures and
\* the history are only displayed; SpecEst, SpecProg and SpecHist model them.
PageRefreshWith(data, blocks, timestamp) ==
    /\ file' = RenderedFile(fileExists, file, data, blocks, timestamp)
    /\ fileExists' = RenderedExists(fileExists, data)
    /\ loaded' = LoadedFrame(fileExists', file')
    /\ last' = [op |-> "refresh", changed |-> file' # file]
    /\ UNCHANGED <<raceVars, est, txe, hist, prog>>

PageRefresh ==
    \E data \in EpochInfos : \E blocks \in Ledgers(data) : \E timestamp \in Timestamps :
        PageRefreshWith(data, blocks, timestamp)

\* get_epoch_info failed: the page shows the error and nothing else runs.
PageRefreshUnavailable ==
    /\ last' = [op |-> "refresh_failed"]
    /\ loaded' = <<>>
    /\ UNCHANGED <<fileExists, file, raceVars, est, txe, hist, prog>>

\* The epochs a direct caller records: those of the chain that have ended.
RecordKeys == 0..(MaxEpoch - 1)
RecordValues == {0} \cup {n * (ModelSlotsInEpoch - 1) : n \in 1..MaxTx}

\* A direct call record_epoch_stats(epoch, tx_estimate).
RecordEpochStatsWith(epoch, tx_estimate, timestamp) ==
    /\ file' = RecordedFile(fileExists, file, epoch, tx_estimate, timestamp)
    /\ fileExists' = TRUE
    /\ loaded' = <<>>
    /\ last' = [op |-> "record",
                existed |-> fileExists /\ EpochInValues(read_csv(file), epoch),
                changed |-> file' # file]
    /\ UNCHANGED <<raceVars, est, txe, hist, prog>>

RecordEpochStats ==
    \E epoch \in RecordKeys : \E tx_estimate \in RecordValues : \E timestamp \in Timestamps :
        RecordEpochStatsWith(epoch, tx_estimate, timestamp)

\* A direct call load_epoch_stats().
LoadEpochStats ==
    /\ loaded' = LoadedFrame(fileExists, file)
    /\ last' = [op |-> "load"]
    /\ UNCHANGED <<fileExists, file, raceVars, est, txe, hist, prog>>

NoRace == [phase |-> "none"]

IdleRace ==
    /\ wpc = <<"idle", "idle">>
    /\ wargs = <<<<>>, <<>>>>
    /\ wdf = <<<<>>, <<>>>>
    /\ raced = NoRace

EpochCount(lines, epoch) == Cardinality({i \in 1..Len(lines) : lines[i][1] = epoch})
StoredEpochs(lines) == {lines[i][1] : i \in 1..Len(lines)}
OneRecordPerEpochIn(lines) == \A epoch \in StoredEpochs(lines) : EpochCount(lines, epoch) = 1

IdleEst == est = None
IdleTxe == txe = None
IdleHist == hist = None
IdleProg == prog = None

\* The store starts with no tracking file: record_epoch_stats creates it.
Init ==
    /\ fileExists = FALSE
    /\ file = <<>>
    /\ loaded = <<>>
    /\ last = [op |-> "none"]
    /\ IdleRace /\ IdleEst /\ IdleTxe /\ IdleHist /\ IdleProg

Next ==
    \/ PageRefresh
    \/ PageRefreshUnavailable
    \/ RecordEpochStats
    \/ LoadEpochStats

Spec == Init /\ [][Next]_vars

(***************************************************************************)
(* Two writers in record_epoch_stats at once.  Each statement that touches *)
(* the file is one step: os.path.exists, pd.read_csv with the membership   *)
(* test, and df.to_csv, which rewrites the whole file.                     *)
(***************************************************************************)
Writers == {1, 2}
Other(w) == 3 - w
PastCheck(pc) == pc \in {"append", "create"}

\* A race that both writers have finished is over at the step after their second write.
Ongoing == IF raced.phase = "both" THEN NoRace ELSE raced

\* Line 70-71: the call takes its timestamp and builds its row.
RaceCall(w) ==
    \E epoch \in RecordKeys : \E tx_estimate \in RecordValues : \E timestamp \in Timestamps :
        /\ wpc[w] = "idle"
        /\ wpc' = [wpc EXCEPT ![w] = "exists"]
        /\ wargs' = [wargs EXCEPT ![w] = <<Row(epoch, tx_estimate, timestamp)>>]
        /\ raced' = Ongoing
        /\ UNCHANGED <<fileExists, file, loaded, last, wdf, est, txe, hist, prog>>

\* Whether writer w, passing the check now, races the other writer on one epoch.
RacedAfterCheck(w) ==
    IF PastCheck(wpc[Other(w)]) /\ wargs[Other(w)][1].Epoch = wargs[w][1].Epoch
    THEN [phase |-> "pending", epoch |-> wargs[w][1].Epoch]
    ELSE Ongoing

\* Line 72: os.path.exists(file_path).
RaceExists(w) ==
    /\ wpc[w] = "exists"
    /\ wpc' = [wpc EXCEPT ![w] = IF fileExists THEN "read" ELSE "create"]
    /\ raced' = IF fileExists THEN Ongoing ELSE RacedAfterCheck(w)
    /\ UNCHANGED <<fileExists, file, loaded, last, wargs, wdf, est, txe, hist, prog>>

\* Lines 73-74: df = pd.read_csv(file_path); epoch not in df["Epoch"].values.
RaceRead(w) ==
    /\ wpc[w] = "read"
    /\ LET df == read_csv(file) IN
       IF ~EpochInValues(df, wargs[w][1].Epoch)
       THEN /\ wpc' = [wpc EXCEPT ![w] = "append"]
            /\ wdf' = [wdf EXCEPT ![w] = df]
            /\ raced' = RacedAfterCheck(w)
            /\ UNCHANGED wargs
       ELSE /\ wpc' = [wpc EXCEPT ![w] = "idle"]
            /\ wargs' = [wargs EXCEPT ![w] = <<>>]
            /\ raced' = Ongoing
            /\ UNCHANGED wdf
    /\ UNCHANGED <<fileExists, file, loaded, last, est, txe, hist, prog>>

\* How a race goes on when one of its writers writes row.
RacedAfterWrite(row) ==
    IF raced.phase = "pending" /\ raced.epoch = row.Epoch
    THEN [phase |-> "one", epoch |-> raced.epoch, first |-> row]
    ELSE IF raced.phase = "one" /\ raced.epoch = row.Epoch
    THEN [phase |-> "both", epoch |-> raced.epoch, first |-> raced.first, second |-> row]
    ELSE Ongoing

\* The row appended to the lines the file holds now, not to the frame read before.
AppendToCurrentFile(df, lines, row) == to_csv(DfAppend(read_csv(lines), row))

\* The file after df.to_csv of the frame the writer read, with its row appended.
AppendedFile(df, lines, row) == to_csv(DfAppend(df, row))

\* Lines 75-76: df = df.append(row); df.to_csv(file_path).
RaceWriteAppend(w) ==
    /\ wpc[w] = "append"
    /\ file' = AppendedFile(wdf[w], file, wargs[w][1])
    /\ wpc' = [wpc EXCEPT ![w] = "idle"]
    /\ raced' = RacedAfterWrite(wargs[w][1])
    /\ wargs' = [wargs EXCEPT ![w] = <<>>]
    /\ wdf' = [wdf EXCEPT ![w] = <<>>]
    /\ UNCHANGED <<fileExists, loaded, last, est, txe, hist, prog>>

\* Lines 78-79: pd.DataFrame([row]).to_csv(file_path).
RaceWriteNew(w) ==
    /\ wpc[w] = "create"
    /\ file' = to_csv(<<wargs[w][1]>>)
    /\ fileExists' = TRUE
    /\ wpc' = [wpc EXCEPT ![w] = "idle"]
    /\ raced' = RacedAfterWrite(wargs[w][1])
    /\ wargs' = [wargs EXCEPT ![w] = <<>>]
    /\ UNCHANGED <<loaded, last, wdf, est, txe, hist, prog>>

RaceNext ==
    \E w \in Writers :
        \/ RaceCall(w)
        \/ RaceExists(w)
        \/ RaceRead(w)
        \/ RaceWriteAppend(w)
        \/ RaceWriteNew(w)

\* A record an earlier call left in the file, of an epoch the writers do not record.
EarlierRecord == Row(MaxEpoch, 0, 0)

\* The writers start with no tracking file, or with the file an earlier call created.
InitRace ==
    /\ \/ fileExists = FALSE /\ file = <<>>
       \/ fileExists = TRUE /\ file = to_csv(<<EarlierRecord>>)
    /\ loaded = <<>>
    /\ last = [op |-> "none"]
    /\ IdleRace /\ IdleEst /\ IdleTxe /\ IdleHist /\ IdleProg

SpecRace == InitRace /\ [][RaceNext]_vars

\* C10 as stated: once two concurrent writers have both passed the existence check
\* for one epoch and both have written, the file holds two records of that epoch.
C10_RaceDoubleBooks ==
    raced.phase = "both" => EpochCount(file, raced.epoch) = 2

\* C10 as amended: both writers can pass the check for one epoch before either
\* writes, but each rewrites the whole file from the frame it read, so after the
\* second of their writes the file holds exactly one record of that epoch, the
\* second writer's; the file never holds two records of one epoch.
C10_RaceLastWriterWins ==
    /\ OneRecordPerEpochIn(file)
    /\ raced.phase = "both" =>
          /\ EpochCount(file, raced.epoch) = 1
          /\ \E i \in 1..Len(file) : read_csv(file)[i] = raced.second

\* Both writers passed the check for one epoch, with different values, and wrote.
C10_Witness ==
    /\ raced.phase = "both"
    /\ raced.first.EstimatedTotalTransactions # raced.second.EstimatedTotalTransactions

(***************************************************************************)
(* estimate_slot_duration(samples, interval_sec), one step per pass of its *)
(* sampling loop.  est.log keeps every fetch with its outcome, est.slots   *)
(* is the list the code builds.                                            *)
(***************************************************************************)
SampleCounts == 2..MaxSamples
Intervals == {1, DEFAULT_INTERVAL_SEC}
SlotNumbers == {100 + 50 * k : k \in 0..MaxSlotSteps}

EstFrame(samples, interval_sec) ==
    [samples |-> samples, interval_sec |-> interval_sec, i |-> 0, clock |-> 0,
     slots |-> <<>>, log |-> <<>>, pc |-> "loop", result |-> <<0, 1>>]

InitEst ==
    /\ fileExists = FALSE /\ file = <<>> /\ loaded = <<>> /\ last = [op |-> "none"]
    /\ IdleRace /\ IdleTxe /\ IdleHist /\ IdleProg
    /\ est \in {EstFrame(samples, interval_sec) :
                    samples \in SampleCounts, interval_sec \in Intervals}

\* Lines 28-31: get_current_slot() answers slot; time.sleep(interval_sec).
EstFetchOk ==
    \E slot \in SlotNumbers :
        /\ est.pc = "loop"
        /\ est.i < est.samples
        /\ est' = [est EXCEPT !.slots = Append(@, <<est.clock, slot>>),
                              !.log = Append(@, <<est.clock, slot>>),
                              !.clock = @ + est.interval_sec,
                              !.i = @ + 1]
        /\ UNCHANGED <<storeVars, raceVars, txe, hist, prog>>

\* Lines 28-31: get_current_slot() returns None; time.sleep(interval_sec).
EstFetchFail ==
    /\ est.pc = "loop"
    /\ est.i < est.samples
    /\ est' = [est EXCEPT !.log = Append(@, <<est.clock, NoSlot>>),
                          !.clock = @ + est.interval_sec,
                          !.i = @ + 1]
    /\ UNCHANGED <<storeVars, raceVars, txe, hist, prog>>

\* a / b; Python raises ZeroDivisionError when b = 0.
Divide(a, b) == IF b = 0 THEN ZeroDivisionError ELSE <<a, b>>

\* Lines 33-38 without the test s1 != s0.
SlotDurationUnguarded(slots) ==
    IF Len(slots) >= 2
    THEN Divide(slots[Len(slots)][1] - slots[1][1], slots[Len(slots)][2] - slots[1][2])
    ELSE FIXED_SLOT_DURATION

\* Lines 33-38.
SlotDurationOf(slots) ==
    IF Len(slots) >= 2
    THEN LET t0 == slots[1][1]
             s0 == slots[1][2]
             t1 == slots[Len(slots)][1]
             s1 == slots[Len(slots)][2]
         IN IF s1 # s0 THEN Divide(t1 - t0, s1 - s0) ELSE FIXED_SLOT_DURATION
    ELSE FIXED_SLOT_DURATION

EstReturn ==
    /\ est.pc = "loop"
    /\ est.i = est.samples
    /\ est' = [est EXCEPT !.pc = "done", !.result = SlotDurationOf(est.slots)]
    /\ UNCHANGED <<storeVars, raceVars, txe, hist, prog>>

EstNext == EstFetchOk \/ EstFetchFail \/ EstReturn

SpecEst == InitEst /\ [][EstNext]_vars

\* C4: estimate_slot_duration returns a strictly positive number of seconds per slot.
C4_DurationPositive ==
    est.pc = "done" => (est.result # ZeroDivisionError /\ RatPos(est.result))

IsSample(entry) == entry[2] # NoSlot
Successful(log) == SelectSeq(log, IsSample)

\* C5: estimate_slot_duration makes exactly samples fetches; it returns the fallback
\* 0.4 when fewer than two fetches succeeded or the first and the last successful
\* sample report the same slot, and otherwise (t_last - t_first) / (s_last - s_first)
\* of the first and last successful samples; it never divides by zero.
C5_FallbackOrQuotient ==
    est.pc = "done" =>
        LET ok == Successful(est.log)
            first == ok[1]
            final == ok[Len(ok)]
        IN /\ Len(est.log) = est.samples
           /\ est.result # ZeroDivisionError
           /\ IF Len(ok) < 2 \/ first[2] = final[2]
              THEN est.result = <<2, 5>>
              ELSE RatEq(est.result, <<final[1] - first[1], final[2] - first[2]>>)

\* The default call (5 samples, 10 s apart): the first fetch sees slot 100 at t = 0,
\* three fetches fail, the last sees slot 200 at t = 40; the result is 0.4.
C5_Witness ==
    /\ est.pc = "done"
    /\ est.samples = DEFAULT_SAMPLES
    /\ est.slots = << <<0, 100>>, <<40, 200>> >>
    /\ Len(est.log) = 5
    /\ RatEq(est.result, <<2, 5>>)

(***************************************************************************)
(* estimate_total_transactions(start_slot, end_slot, sample_rate) applied  *)
(* to arguments and blocks drawn by the initial state.                     *)
(***************************************************************************)
\* The slots start_slot + k * sample_rate up to end_slot, end_slot included.
StrideSlots(start_slot, end_slot, sample_rate) ==
    {slot \in start_slot..end_slot : (slot - start_slot) % sample_rate = 0}

TxFrame(start_slot, end_slot, sample_rate, blocks) ==
    [start_slot |-> start_slot, end_slot |-> end_slot, sample_rate |-> sample_rate,
     blocks |-> blocks, pc |-> "call", probed |-> <<>>, result |-> 0]

TxOutcomes == {NoBlock} \cup (0..MaxBlockTx)

\* Section 8 of the specification: slots 0..1000 sampled every 500 slots.
TxExampleFrames ==
    {TxFrame(0, 1000, 500, [slot \in {0, 500, 1000} |->
                               IF slot = 0 THEN 10 ELSE IF slot = 500 THEN 20 ELSE last1000]) :
        last1000 \in {NoBlock, 30}}

InitTx ==
    /\ fileExists = FALSE /\ file = <<>> /\ loaded = <<>> /\ last = [op |-> "none"]
    /\ IdleRace /\ IdleEst /\ IdleHist /\ IdleProg
    /\ \/ \E start_slot \in 0..MaxStart, span \in 1..MaxSpan, sample_rate \in 1..MaxStride :
             \E blocks \in [StrideSlots(start_slot, start_slot + span, sample_rate) -> TxOutcomes] :
                txe = TxFrame(start_slot, start_slot + span, sample_rate, blocks)
       \/ txe \in TxExampleFrames

TxEstimate ==
    /\ txe.pc = "call"
    /\ txe' = [txe EXCEPT
                 !.pc = "done",
                 !.probed = Sampled(txe.start_slot, txe.end_slot, txe.sample_rate,
                                    txe.blocks).probed,
                 !.result = estimate_total_transactions(txe.start_slot, txe.end_slot,
                                                        txe.sample_rate, txe.blocks)]
    /\ UNCHANGED <<storeVars, raceVars, est, hist, prog>>

SpecTx == InitTx /\ [][TxEstimate]_vars

\* The slots start_slot, start_slot + sample_rate, ... below end_slot, those among
\* them whose block resolved, and the transactions of a set of resolved slots.
ProbeSlots == {slot \in txe.start_slot..(txe.end_slot - 1) :
                  (slot - txe.start_slot) % txe.sample_rate = 0}
ResolvedSlots == {slot \in ProbeSlots : txe.blocks[slot] # NoBlock}

RECURSIVE SumTx(_)
SumTx(slots) ==
    IF slots = {} THEN 0
    ELSE LET slot == CHOOSE x \in slots : TRUE
         IN txe.blocks[slot] + SumTx(slots \ {slot})

ProbedInOrder ==
    /\ Len(txe.probed) = Cardinality(ProbeSlots)
    /\ \A k \in 1..Len(txe.probed) :
          txe.probed[k] = txe.start_slot + (k - 1) * txe.sample_rate

\* C6 as stated: the result is the extrapolated value rounded to the nearest integer.
C6_RoundedToNearest ==
    txe.pc = "done" =>
        LET totalTx == SumTx(ResolvedSlots)
            sampledCount == Cardinality(ResolvedSlots)
            span == txe.end_slot - txe.start_slot
        IN /\ ProbedInOrder
           /\ sampledCount = 0 => txe.result = 0
           /\ sampledCount > 0 =>
                 /\ 2 * (txe.result * sampledCount - totalTx * span) <= sampledCount
                 /\ 2 * (totalTx * span - txe.result * sampledCount) <= sampledCount

\* C6 as amended: the probes are the slots start_slot, start_slot + sample_rate, ...
\* below end_slot; only resolved probes count; the result is 0 when none resolved and
\* otherwise the extrapolated value (totalTx / sampledCount) * (end_slot - start_slot)
\* cut down to an integer by int(): never above it and at most 1 below it (a whole 1
\* below only when the product is itself an integer that the double arithmetic of
\* tx_count / slots_sampled * span misses from below, as (1 / 49) * 49 does).
C6_TruncatedTotal ==
    txe.pc = "done" =>
        LET totalTx == SumTx(ResolvedSlots)
            sampledCount == Cardinality(ResolvedSlots)
            span == txe.end_slot - txe.start_slot
        IN /\ ProbedInOrder
           /\ sampledCount = 0 => txe.result = 0
           /\ sampledCount > 0 =>
                 /\ txe.result * sampledCount <= totalTx * span
                 /\ totalTx * span <= (txe.result + 1) * sampledCount

\* Section 8's example has run: slots 0 and 500 probed, 10 and 20 transactions, 15000.
C6_Witness ==
    /\ txe.pc = "done"
    /\ txe.start_slot = 0 /\ txe.end_slot = 1000 /\ txe.sample_rate = 500
    /\ txe.probed = <<0, 500>>
    /\ txe.result = 15000

(***************************************************************************)
(* generate_full_epoch_history(current_epoch, current_starting_slot), one  *)
(* step per pass of its loop.  Times are seconds; hist.now is utcnow().    *)
(***************************************************************************)
\* timedelta(seconds = slots * FIXED_SLOT_DURATION), in whole seconds.
SlotSeconds(slots) == (slots * FIXED_SLOT_DURATION[1]) \div FIXED_SLOT_DURATION[2]

\* Lines 115-128 with end_slot one slot too far.
HistoryRowPastEnd(current_epoch, current_starting_slot, now, i) ==
    LET start_slot == current_starting_slot - (SLOTS_PER_EPOCH * i)
        est_start == now - SlotSeconds(SLOTS_PER_EPOCH * i)
    IN [Epoch |-> current_epoch - i,
        StartSlot |-> start_slot,
        EndSlot |-> start_slot + SLOTS_PER_EPOCH,
        StartBlock |-> "Approximate",
        EndBlock |-> "Approximate",
        EstStart |-> est_start,
        EstEnd |-> est_start + SlotSeconds(SLOTS_PER_EPOCH)]

\* Lines 115-128: the row of offset i.
HistoryRow(current_epoch, current_starting_slot, now, i) ==
    LET epoch == current_epoch - i
        start_slot == current_starting_slot - (SLOTS_PER_EPOCH * i)
        end_slot == start_slot + SLOTS_PER_EPOCH - 1
        est_start == now - SlotSeconds(SLOTS_PER_EPOCH * i)
        est_end == est_start + SlotSeconds(SLOTS_PER_EPOCH)
    IN [Epoch |-> epoch,
        StartSlot |-> start_slot,
        EndSlot |-> end_slot,
        StartBlock |-> "Approximate",
        EndBlock |-> "Approximate",
        EstStart |-> est_start,
        EstEnd |-> est_end]

\* Line 114: range(current_epoch + 1).
HistoryLoopCount(current_epoch) == current_epoch + 1

HistFrame(current_epoch, current_starting_slot, now) ==
    [current_epoch |-> current_epoch, current_starting_slot |-> current_starting_slot,
     now |-> now, i |-> 0, rows |-> <<>>, pc |-> "loop"]

StartingSlots ==
    {k * SLOTS_PER_EPOCH + offset : k \in 0..MaxHistEpoch, offset \in 0..MaxOffset}

InitHist ==
    /\ fileExists = FALSE /\ file = <<>> /\ loaded = <<>> /\ last = [op |-> "none"]
    /\ IdleRace /\ IdleEst /\ IdleTxe /\ IdleProg
    /\ hist \in {HistFrame(current_epoch, current_starting_slot, now) :
                     current_epoch \in 0..MaxHistEpoch,
                     current_starting_slot \in StartingSlots,
                     now \in Timestamps}

HistAppendRow ==
    /\ hist.pc = "loop"
    /\ hist.i < HistoryLoopCount(hist.current_epoch)
    /\ hist' = [hist EXCEPT
                  !.rows = Append(@, HistoryRow(hist.current_epoch,
                                                hist.current_starting_slot, hist.now, hist.i)),
                  !.i = @ + 1]
    /\ UNCHANGED <<storeVars, raceVars, est, txe, prog>>

HistReturn ==
    /\ hist.pc = "loop"
    /\ hist.i >= HistoryLoopCount(hist.current_epoch)
    /\ hist' = [hist EXCEPT !.pc = "done"]
    /\ UNCHANGED <<storeVars, raceVars, est, txe, prog>>

HistNext == HistAppendRow \/ HistReturn

SpecHist == InitHist /\ [][HistNext]_vars

\* C7: the history has current_epoch + 1 rows, for the epochs current_epoch down to 0
\* in that order; each row ends at StartSlot + SLOTS_PER_EPOCH - 1, the row at offset i
\* starts at current_starting_slot - SLOTS_PER_EPOCH * i, and the row of epoch e - 1
\* ends one slot before the row of epoch e starts.
C7_HistoryRows ==
    hist.pc = "done" =>
        /\ Len(hist.rows) = hist.current_epoch + 1
        /\ \A k \in 1..Len(hist.rows) :
              /\ hist.rows[k].Epoch = hist.current_epoch - (k - 1)
              /\ hist.rows[k].StartSlot =
                    hist.current_starting_slot - SLOTS_PER_EPOCH * (k - 1)
              /\ hist.rows[k].EndSlot = hist.rows[k].StartSlot + SLOTS_PER_EPOCH - 1
        /\ \A k \in 1..(Len(hist.rows) - 1) :
              /\ hist.rows[k + 1].Epoch = hist.rows[k].Epoch - 1
              /\ hist.rows[k + 1].EndSlot + 1 = hist.rows[k].StartSlot
        /\ hist.rows[Len(hist.rows)].Epoch = 0

\* Section 8's example: epoch 3 starting at slot 1296000.
C7_Witness ==
    /\ hist.pc = "done"
    /\ hist.current_epoch = 3
    /\ hist.current_starting_slot = 1296000
    /\ Len(hist.rows) = 4
    /\ hist.rows[1].Epoch = 3
    /\ hist.rows[1].StartSlot = 1296000 /\ hist.rows[1].EndSlot = 1727999
    /\ hist.rows[4].Epoch = 0
    /\ hist.rows[4].StartSlot = 0 /\ hist.rows[4].EndSlot = 431999

(***************************************************************************)
(* The progress computation of render_current_epoch (lines 87-96) applied  *)
(* to an epoch info and a slot duration drawn by the initial state.        *)
(***************************************************************************)
\* Lines 90-91 with the remaining slots taken for the elapsed ones.
ProgressOfRemaining(data, slot_duration, now) ==
    LET remaining_slots == data.slotsInEpoch - data.slotIndex
        time_remaining_sec == RatMul(RatOfInt(remaining_slots), slot_duration)
    IN [remaining_slots |-> remaining_slots,
        pct_done |-> <<remaining_slots * 100, data.slotsInEpoch>>,
        time_remaining_sec |-> time_remaining_sec,
        estimated_end |-> <<now * time_remaining_sec[2] + time_remaining_sec[1],
                            time_remaining_sec[2]>>,
        start_slot |-> StartSlot(data),
        end_slot |-> EndSlot(data)]

\* Lines 87-96.
Progress(data, slot_duration, now) ==
    LET slot_index == data.slotIndex
        slots_in_epoch == data.slotsInEpoch
        remaining_slots == slots_in_epoch - slot_index
        pct_done == <<slot_index * 100, slots_in_epoch>>
        time_remaining_sec == RatMul(RatOfInt(remaining_slots), slot_duration)
        estimated_end == <<now * time_remaining_sec[2] + time_remaining_sec[1],
                           time_remaining_sec[2]>>
    IN [remaining_slots |-> remaining_slots,
        pct_done |-> pct_done,
        time_remaining_sec |-> time_remaining_sec,
        estimated_end |-> estimated_end,
        start_slot |-> StartSlot(data),
        end_slot |-> EndSlot(data)]

\* The epoch infos the progress computation is applied to: the model's slotsInEpoch
\* and mainnet's, at the first slots of the epoch and at its last.
ProgressInfos ==
    { [epoch |-> e, slotIndex |-> x, slotsInEpoch |-> n, absoluteSlot |-> e * n + x] :
      e \in 0..MaxEpoch, n \in {ModelSlotsInEpoch, SLOTS_PER_EPOCH},
      x \in 0..MaxSlotIndex } \cup
    { [epoch |-> e, slotIndex |-> n - 1, slotsInEpoch |-> n, absoluteSlot |-> e * n + n - 1] :
      e \in 0..MaxEpoch, n \in {ModelSlotsInEpoch, SLOTS_PER_EPOCH} }

\* Values estimate_slot_duration returns: the fallback, two quotients, a negative one.
SlotDurations == {FIXED_SLOT_DURATION, <<40, 100>>, <<10, 50>>, <<10, -50>>}

ProgFrame(data, slot_duration, now) ==
    [data |-> data, slot_duration |-> slot_duration, now |-> now, pc |-> "call",
     out |-> <<>>]

InitProg ==
    /\ fileExists = FALSE /\ file = <<>> /\ loaded = <<>> /\ last = [op |-> "none"]
    /\ IdleRace /\ IdleEst /\ IdleTxe /\ IdleHist
    /\ prog \in {ProgFrame(data, slot_duration, now) :
                     data \in ProgressInfos, slot_duration \in SlotDurations,
                     now \in Timestamps}

ProgCompute ==
    /\ prog.pc = "call"
    /\ prog' = [prog EXCEPT !.pc = "done",
                            !.out = Progress(prog.data, prog.slot_duration, prog.now)]
    /\ UNCHANGED <<storeVars, raceVars, est, txe, hist>>

SpecProg == InitProg /\ [][ProgCompute]_vars

\* C8: for a valid epoch info and a slot duration > 0, pct_done is
\* 100 * slotIndex / slotsInEpoch, lies in [0, 100], is 0 at slotIndex 0 and below 100
\* at slotIndex = slotsInEpoch - 1; time_remaining_sec is
\* (slotsInEpoch - slotIndex) * slot_duration and is >= 0; the estimated end is
\* now + time_remaining_sec.
C8_ProgressBounds ==
    (prog.pc = "done" /\ RatPos(prog.slot_duration)) =>
        LET data == prog.data
            out == prog.out
        IN /\ out.pct_done[2] # 0
           /\ RatEq(out.pct_done, <<100 * data.slotIndex, data.slotsInEpoch>>)
           /\ RatLeq(<<0, 1>>, out.pct_done)
           /\ RatLeq(out.pct_done, <<100, 1>>)
           /\ data.slotIndex = 0 => RatEq(out.pct_done, <<0, 1>>)
           /\ data.slotIndex = data.slotsInEpoch - 1 => RatLess(out.pct_done, <<100, 1>>)
           /\ RatEq(out.time_remaining_sec,
                    <<(data.slotsInEpoch - data.slotIndex) * prog.slot_duration[1],
                      prog.slot_duration[2]>>)
           /\ RatNonNeg(out.time_remaining_sec)
           /\ RatEq(out.estimated_end,
                    <<prog.now * prog.slot_duration[2]
                        + (data.slotsInEpoch - data.slotIndex) * prog.slot_duration[1],
                      prog.slot_duration[2]>>)

\* The progress of the last slot of a mainnet epoch has been computed: below 100.
C8_Witness ==
    /\ prog.pc = "done"
    /\ RatPos(prog.slot_duration)
    /\ prog.data.slotsInEpoch = SLOTS_PER_EPOCH
    /\ prog.data.slotIndex = SLOTS_PER_EPOCH - 1
    /\ RatLess(prog.out.pct_done, <<100, 1>>)
    /\ RatLess(<<99, 1>>, prog.out.pct_done)

(***************************************************************************)
(* The tracking file under a single writer.                                *)
(***************************************************************************)
OneRecordPerEpoch == OneRecordPerEpochIn(file)

\* C1: record_epoch_stats is idempotent per epoch: the file never holds two records
\* of one epoch, and a call for an epoch that already has a record leaves the file
\* as it was, whatever value it passes.
C1_RecordOnceIdempotent ==
    /\ OneRecordPerEpoch
    /\ (last.op = "record" /\ last.existed) => ~last.changed

\* A call for an epoch already on file, next to another record, has run.
C1_Witness ==
    /\ last.op = "record"
    /\ last.existed
    /\ Len(file) >= 2

\* C2: a refresh at slotIndex < 10 of epoch e that records a statistic writes it
\* under e - 1, with the estimate taken over the slots of epoch e - 1: the
\* slotsInEpoch slots that end right before the current epoch's first slot
\* (previous: the block of the first of those slots, the one that range samples).
C2_RecordsPreviousEpochEstimate ==
    [][\A data \in EpochInfos : \A blocks \in Ledgers(data) : \A timestamp \in Timestamps :
       \A previous \in [{StartSlot(data) - data.slotsInEpoch} -> BlockOutcomes] :
        (/\ PageRefreshWith(data, blocks, timestamp)
         /\ data.epoch >= 1
         /\ data.slotIndex < NEW_EPOCH_SLOTS
         /\ file' # file)
        => LET written == read_csv(file')[Len(file')] IN
           /\ written.Epoch = data.epoch - 1
           /\ written.EstimatedTotalTransactions =
                  estimate_total_transactions(StartSlot(data) - data.slotsInEpoch,
                                              StartSlot(data) - 1,
                                              DEFAULT_SAMPLE_RATE, previous)]_vars

\* C3: every record on file has epoch >= 0 and estimatedTotalTransactions >= 0.
C3_RecordsNonNegative ==
    \A i \in 1..Len(file) :
        /\ read_csv(file)[i].Epoch >= 0
        /\ read_csv(file)[i].EstimatedTotalTransactions >= 0

\* C9: the store is append-only: a step leaves the file as it is or adds one line at
\* its end, load_epoch_stats returns the rows in the order of the file, and it
\* returns an empty frame when there is no file.
C9_AppendOnly ==
    /\ [][\/ file' = file
          \/ (Len(file') = Len(file) + 1 /\ SubSeq(file', 1, Len(file)) = file)]_vars
    /\ [](last.op = "load" =>
            /\ Len(loaded) = Len(file)
            /\ \A i \in 1..Len(file) :
                  /\ loaded[i].Epoch = file[i][1]
                  /\ loaded[i].EstimatedTotalTransactions = file[i][2]
                  /\ loaded[i].Timestamp = file[i][3]
            /\ (~fileExists => loaded = <<>>))

\* Two records were appended and load_epoch_stats returned both.
C9_Witness ==
    /\ last.op = "load"
    /\ Len(loaded) >= 2

====
